---------------------------- MODULE Spec2Model ----------------------------
(*************************************************************************)
(* A model of src/include/primer/p0_starter.h: the Matrix<T> base, the   *)
(* row-major RowMatrix<T> and the static RowMatrixOperations<T>          *)
(* (Add, Multiply, GEMM).                                                *)
(*                                                                       *)
(* Objects live in a heap indexed by address.  A pointer is an address   *)
(* or NULL.  _linear is the owned buffer, kept as a sequence whose       *)
(* element k+1 is the C++ element at offset k; _data[r+1] is the offset  *)
(* (relative to _linear) the row pointer _data[r] addresses.             *)
(*                                                                       *)
(* T is an integer type; the values of the model stay far below its     *)
(* range, so its arithmetic is that of the integers.                     *)
(*                                                                       *)
(* Two specifications share the state:                                   *)
(*   Spec     one RowMatrix and calls of its element interface;          *)
(*   SpecOps  two operand matrices and calls of Add, Multiply and GEMM.  *)
(*************************************************************************)
EXTENDS Integers, Sequences, FiniteSets, TLC

VARIABLES
    heap,   \* address -> the RowMatrix object stored there, or FREE
    res,    \* the caller's std::unique_ptr holding an operation's result
    last    \* the call in progress: operation, arguments, outcome

vars == <<heap, res, last>>

(* ------------------------------ bounds ------------------------------ *)

\* constructed matrices have rows > 0, cols > 0 and rows * cols <= MaxCells
MaxCells == 4

\* element values supplied by callers (and garbage in fresh storage) are 0..MaxVal
MaxVal == 1

\* number of heap addresses
MaxObjs == 3

Val == 0 .. MaxVal

Shapes == {s \in (1 .. MaxCells) \X (1 .. MaxCells) : s[1] * s[2] <= MaxCells}

Addr == 1 .. MaxObjs

(* ------------------------------ values ------------------------------ *)

\* the null pointer
NULL == 0

\* the content of an address that holds no object
FREE == [free |-> TRUE]

OK == "ok"

OUT_OF_RANGE == "OUT_OF_RANGE"

\* the outcome of undefined behaviour that the build turns into an abort
UNDEFINED == "undefined"

\* all sequences over S of length n: the contents fresh storage may hold
RECURSIVE SeqsOfLen(_, _)
SeqsOfLen(S, n) ==
    IF n = 0 THEN {<<>>}
    ELSE {Append(s, x) : s \in SeqsOfLen(S, n - 1), x \in S}

(* --------------------------- Matrix<T> ------------------------------ *)

\* Matrix(int rows, int cols): the two fields and new T[_rows * _cols],
\* whose elements are indeterminate: garbage is the content the storage
\* happens to hold.  Callers construct the shapes the assertion admits.
Matrix(rows, cols, garbage) ==
    [_rows |-> rows, _cols |-> cols,
     _linear |-> [k \in 1 .. rows * cols |-> garbage[k]]]

\* RowIndexLoop without offset += cols: every row pointer addresses row 0
RECURSIVE RowIndexLoopNoAdvance(_, _, _, _, _)
RowIndexLoopNoAdvance(rows, cols, i, offset, data) ==
    IF i < rows
    THEN RowIndexLoopNoAdvance(rows, cols, i + 1, offset, Append(data, offset))
    ELSE data

\* the loop of the RowMatrix constructor: _data[i] = _linear + offset;
\* offset += cols
RECURSIVE RowIndexLoop(_, _, _, _, _)
RowIndexLoop(rows, cols, i, offset, data) ==
    IF i < rows
    THEN RowIndexLoop(rows, cols, i + 1, offset + cols, Append(data, offset))
    ELSE data

\* RowMatrix(int rows, int cols)
RowMatrix(rows, cols, garbage) ==
    LET base == Matrix(rows, cols, garbage)
    IN  [_rows |-> base._rows, _cols |-> base._cols, _linear |-> base._linear,
         _data |-> RowIndexLoop(rows, cols, 0, 0, <<>>)]

GetRowCount(m) == m._rows

GetColumnCount(m) == m._cols

\* the buffer offset the expression _data[i][j] addresses
Slot(m, i, j) == m._data[i + 1] + j

\* the range test shared by GetElement and SetElement
OutOfRange(m, i, j) == i < 0 \/ i >= m._rows \/ j < 0 \/ j >= m._cols

\* GetElement answering a default value where it should throw
GetElementDefault(m, i, j) ==
    IF OutOfRange(m, i, j)
    THEN [out |-> OK, ret |-> 0]
    ELSE [out |-> OK, ret |-> m._linear[Slot(m, i, j) + 1]]

\* T GetElement(int i, int j) const
GetElement(m, i, j) ==
    IF OutOfRange(m, i, j)
    THEN [out |-> OUT_OF_RANGE, ret |-> 0]
    ELSE [out |-> OK, ret |-> m._linear[Slot(m, i, j) + 1]]

\* SetElement writing at offset i + j: the row stride is forgotten
SetElementNoStride(m, i, j, val) ==
    IF OutOfRange(m, i, j)
    THEN [out |-> OUT_OF_RANGE, obj |-> m]
    ELSE [out |-> OK, obj |-> [m EXCEPT !._linear[i + j + 1] = val]]

\* void SetElement(int i, int j, T val)
SetElement(m, i, j, val) ==
    IF OutOfRange(m, i, j)
    THEN [out |-> OUT_OF_RANGE, obj |-> m]
    ELSE [out |-> OK,
          obj |-> [m EXCEPT !._linear[Slot(m, i, j) + 1] = val]]

\* the two loops of FillFrom: _data[i][j] = source[i * _cols + j]
RECURSIVE FillLoop(_, _, _, _)
FillLoop(m, source, i, j) ==
    IF i >= m._rows THEN m
    ELSE IF j >= m._cols THEN FillLoop(m, source, i + 1, 0)
    ELSE FillLoop([m EXCEPT !._linear[Slot(m, i, j) + 1] =
                                source[i * m._cols + j + 1]],
                  source, i, j + 1)

\* FillFrom testing source.size() < rows * cols: a longer source is accepted
FillFromAcceptLonger(m, source) ==
    IF Len(source) < m._rows * m._cols
    THEN [out |-> OUT_OF_RANGE, obj |-> m]
    ELSE [out |-> OK, obj |-> FillLoop(m, source, 0, 0)]

\* void FillFrom(const std::vector<T>& source)
FillFrom(m, source) ==
    IF Len(source) # m._rows * m._cols
    THEN [out |-> OUT_OF_RANGE, obj |-> m]
    ELSE [out |-> OK, obj |-> FillLoop(m, source, 0, 0)]

(* ------------------------------ heap -------------------------------- *)

Live(h) == {p \in Addr : h[p] # FREE}

\* operator new: the lowest free address
Alloc(h) == CHOOSE p \in Addr : h[p] = FREE /\ \A q \in Addr : q < p => h[q] # FREE

EmptyHeap == [p \in Addr |-> FREE]

\* the record of the latest call: the operation, its arguments, its outcome
NoCall ==
    [op |-> "none", a |-> NULL, b |-> NULL, c |-> NULL, i |-> 0, j |-> 0,
     val |-> 0, source |-> <<>>, out |-> OK, ret |-> 0, res |-> NULL]

\* a caller's sequence of len values: start, start + step, ... within Val
Ramp(len, start, step) ==
    [k \in 1 .. len |-> (start + step * (k - 1)) % (MaxVal + 1)]

\* a caller's sequence of len values that is MaxVal at pos and 0 elsewhere
Unit(len, pos) == [k \in 1 .. len |-> IF k = pos THEN MaxVal ELSE 0]

\* the sequences of length len a caller passes
SourcesOfLen(len) ==
    {Ramp(len, start, step) : start \in Val, step \in Val}
        \cup {Unit(len, pos) : pos \in 1 .. len}

\* the sources a caller passes to FillFrom on a matrix of n elements: the
\* right length n, the neighbouring lengths n - 1 and n + 1, and the empty one
Sources(n) == UNION {SourcesOfLen(len) : len \in {0, n - 1, n, n + 1}}

(* ----------------------- RowMatrixOperations<T> --------------------- *)

\* fresh storage in which every element holds the value g
Garbage(n, g) == [k \in 1 .. n |-> g]

\* ~RowMatrix() then ~Matrix(): delete[] _data, and delete _linear on
\* storage that new T[] allocated.  The mismatched delete is undefined
\* behaviour: del is what the build makes of it, OK (the storage is
\* released) or UNDEFINED (the allocator aborts the program).
Destroy(h, p, del) ==
    [out |-> del, heap |-> IF del = OK THEN [h EXCEPT ![p] = FREE] ELSE h]

\* the two loops of Add over the result r; an exception of an accessor
\* leaves the loops
RECURSIVE AddLoop(_, _, _, _, _, _, _, _)
AddLoop(h, a, b, r, rowsA, colsA, i, j) ==
    IF i >= rowsA THEN [out |-> OK, heap |-> h]
    ELSE IF j >= colsA THEN AddLoop(h, a, b, r, rowsA, colsA, i + 1, 0)
    ELSE LET valueA == GetElement(h[a], i, j)
             valueB == GetElement(h[b], i, j)
             set == SetElement(h[r], i, j, valueA.ret + valueB.ret)
         IN  IF valueA.out # OK THEN [out |-> valueA.out, heap |-> h]
             ELSE IF valueB.out # OK THEN [out |-> valueB.out, heap |-> h]
             ELSE IF set.out # OK THEN [out |-> set.out, heap |-> h]
             ELSE AddLoop([h EXCEPT ![r] = set.obj], a, b, r, rowsA, colsA, i, j + 1)

\* AddPresent testing rowsA != rowsB && colsA != colsB
AddPresentBothDiffer(h, a, b, g) ==
    LET rowsA == GetRowCount(h[a])
        colsA == GetColumnCount(h[a])
        rowsB == GetRowCount(h[b])
        colsB == GetColumnCount(h[b])
    IN  IF rowsA # rowsB /\ colsA # colsB
        THEN [out |-> OK, res |-> NULL, heap |-> h]
        ELSE LET r == Alloc(h)
                 made == [h EXCEPT ![r] =
                             RowMatrix(rowsA, colsB, Garbage(rowsA * colsB, g))]
                 loop == AddLoop(made, a, b, r, rowsA, colsA, 0, 0)
             IN  IF loop.out = OK
                 THEN [out |-> OK, res |-> r, heap |-> loop.heap]
                 ELSE [out |-> loop.out, res |-> NULL, heap |-> h]

\* AddPresent accumulating into matrixA and returning it
AddPresentInPlace(h, a, b, g) ==
    LET rowsA == GetRowCount(h[a])
        colsA == GetColumnCount(h[a])
        rowsB == GetRowCount(h[b])
        colsB == GetColumnCount(h[b])
    IN  IF rowsA # rowsB \/ colsA # colsB
        THEN [out |-> OK, res |-> NULL, heap |-> h]
        ELSE LET loop == AddLoop(h, a, b, a, rowsA, colsA, 0, 0)
             IN  [out |-> loop.out, res |-> a, heap |-> loop.heap]

\* Add past its null check: the shape test, make_unique<RowMatrix<T>>(rowsA,
\* colsB) and the loops.  g is the garbage of the result's fresh storage.
\* An exception unwinds through the result, whose storage is released.
AddPresent(h, a, b, g) ==
    LET rowsA == GetRowCount(h[a])
        colsA == GetColumnCount(h[a])
        rowsB == GetRowCount(h[b])
        colsB == GetColumnCount(h[b])
    IN  IF rowsA # rowsB \/ colsA # colsB
        THEN [out |-> OK, res |-> NULL, heap |-> h]
        ELSE LET r == Alloc(h)
                 made == [h EXCEPT ![r] =
                             RowMatrix(rowsA, colsB, Garbage(rowsA * colsB, g))]
                 loop == AddLoop(made, a, b, r, rowsA, colsA, 0, 0)
             IN  IF loop.out = OK
                 THEN [out |-> OK, res |-> r, heap |-> loop.heap]
                 ELSE [out |-> loop.out, res |-> NULL, heap |-> h]

\* Add without its null check: it asks a null pointer for its row count,
\* which is undefined behaviour
AddNoNullCheck(h, a, b, g) ==
    IF a = NULL \/ b = NULL
    THEN [out |-> UNDEFINED, res |-> NULL, heap |-> h]
    ELSE AddPresent(h, a, b, g)

\* static std::unique_ptr<RowMatrix<T>> Add(matrixA, matrixB)
Add(h, a, b, g) ==
    IF a = NULL \/ b = NULL
    THEN [out |-> OK, res |-> NULL, heap |-> h]
    ELSE AddPresent(h, a, b, g)

\* the innermost loop of Multiply: tmp += A(i, k) * B(k, j)
RECURSIVE DotLoop(_, _, _, _, _, _, _, _)
DotLoop(h, a, b, colsA, i, j, k, tmp) ==
    IF k >= colsA THEN [out |-> OK, ret |-> tmp]
    ELSE LET valueA == GetElement(h[a], i, k)
             valueB == GetElement(h[b], k, j)
         IN  IF valueA.out # OK THEN [out |-> valueA.out, ret |-> tmp]
             ELSE IF valueB.out # OK THEN [out |-> valueB.out, ret |-> tmp]
             ELSE DotLoop(h, a, b, colsA, i, j, k + 1, tmp + valueA.ret * valueB.ret)

\* the two outer loops of Multiply over the result r: T tmp = 0, the
\* innermost loop, SetElement(i, j, tmp)
RECURSIVE MultiplyLoop(_, _, _, _, _, _, _, _, _)
MultiplyLoop(h, a, b, r, rowsA, colsA, colsB, i, j) ==
    IF i >= rowsA THEN [out |-> OK, heap |-> h]
    ELSE IF j >= colsB THEN MultiplyLoop(h, a, b, r, rowsA, colsA, colsB, i + 1, 0)
    ELSE LET dot == DotLoop(h, a, b, colsA, i, j, 0, 0)
             set == SetElement(h[r], i, j, dot.ret)
         IN  IF dot.out # OK THEN [out |-> dot.out, heap |-> h]
             ELSE IF set.out # OK THEN [out |-> set.out, heap |-> h]
             ELSE MultiplyLoop([h EXCEPT ![r] = set.obj], a, b, r,
                               rowsA, colsA, colsB, i, j + 1)

\* Multiply past its tests: make_unique<RowMatrix<T>>(rowsA, colsB), the
\* loops, and return std::unique_ptr<RowMatrix<T>>(nullptr), at which the
\* local result goes out of scope and is destroyed.
MultiplyCompute(h, a, b, g, del) ==
    LET rowsA == GetRowCount(h[a])
        colsA == GetColumnCount(h[a])
        colsB == GetColumnCount(h[b])
        r == Alloc(h)
        made == [h EXCEPT ![r] = RowMatrix(rowsA, colsB, Garbage(rowsA * colsB, g))]
        loop == MultiplyLoop(made, a, b, r, rowsA, colsA, colsB, 0, 0)
        gone == Destroy(loop.heap, r, del)
    IN  IF loop.out # OK
        THEN [out |-> loop.out, res |-> NULL, heap |-> h]
        ELSE [out |-> gone.out, res |-> NULL, heap |-> [gone.heap EXCEPT ![r] = FREE]]

\* MultiplyPresent without the test colsA != rowsB
MultiplyPresentNoTest(h, a, b, g, del) == MultiplyCompute(h, a, b, g, del)

\* Multiply past its null check: the test colsA != rowsB
MultiplyPresent(h, a, b, g, del) ==
    IF GetColumnCount(h[a]) # GetRowCount(h[b])
    THEN [out |-> OK, res |-> NULL, heap |-> h]
    ELSE MultiplyCompute(h, a, b, g, del)

\* static std::unique_ptr<RowMatrix<T>> Multiply(matrixA, matrixB)
Multiply(h, a, b, g, del) ==
    IF a = NULL \/ b = NULL
    THEN [out |-> OK, res |-> NULL, heap |-> h]
    ELSE MultiplyPresent(h, a, b, g, del)

\* static std::unique_ptr<RowMatrix<T>> GEMM(matrixA, matrixB, matrixC):
\* Add(Multiply(matrixA, matrixB), matrixC).  Add receives the pointer the
\* temporary holds; the temporary is destroyed after Add has returned.
GEMM(h, a, b, c, g, del) ==
    LET product == Multiply(h, a, b, g, del)
        sum == Add(product.heap, product.res, c, g)
        gone == Destroy(sum.heap, product.res, del)
    IN  IF product.out # OK
        THEN [out |-> product.out, res |-> NULL, heap |-> product.heap]
        ELSE IF product.res = NULL \/ sum.out # OK THEN sum
        ELSE [out |-> gone.out, res |-> sum.res, heap |-> gone.heap]

(* ---------------- Spec: one RowMatrix and its interface ------------- *)

\* indices a caller tries on a dimension of size n: negative, valid, and
\* the boundary value n itself
Index(n) == -1 .. n

Idle == last.op = "none"

\* the state after RowMatrix(rows, cols) has constructed the matrix
Init ==
    \E s \in Shapes :
       \E garbage \in SeqsOfLen(Val, s[1] * s[2]) :
          LET p == Alloc(EmptyHeap)
          IN  /\ heap = [EmptyHeap EXCEPT ![p] = RowMatrix(s[1], s[2], garbage)]
              /\ res = NULL
              /\ last = [NoCall EXCEPT !.op = "RowMatrix", !.a = p,
                                       !.i = s[1], !.j = s[2]]

CallGetElement(p, i, j) ==
    LET r == GetElement(heap[p], i, j)
    IN  /\ last' = [NoCall EXCEPT !.op = "GetElement", !.a = p, !.i = i, !.j = j,
                                  !.out = r.out, !.ret = r.ret]
        /\ UNCHANGED <<heap, res>>

CallSetElement(p, i, j, val) ==
    LET r == SetElement(heap[p], i, j, val)
    IN  /\ heap' = [heap EXCEPT ![p] = r.obj]
        /\ last' = [NoCall EXCEPT !.op = "SetElement", !.a = p, !.i = i, !.j = j,
                                  !.val = val, !.out = r.out]
        /\ UNCHANGED res

CallFillFrom(p, source) ==
    LET r == FillFrom(heap[p], source)
    IN  /\ heap' = [heap EXCEPT ![p] = r.obj]
        /\ last' = [NoCall EXCEPT !.op = "FillFrom", !.a = p, !.source = source,
                                  !.out = r.out]
        /\ UNCHANGED res

GetElementStep ==
    /\ Idle
    /\ \E p \in Live(heap) :
         \E i \in Index(heap[p]._rows), j \in Index(heap[p]._cols) :
            CallGetElement(p, i, j)

SetElementStep ==
    /\ Idle
    /\ \E p \in Live(heap) :
         \E i \in Index(heap[p]._rows), j \in Index(heap[p]._cols), val \in Val :
            CallSetElement(p, i, j, val)

FillFromStep ==
    /\ Idle
    /\ \E p \in Live(heap) :
         \E source \in Sources(heap[p]._rows * heap[p]._cols) : CallFillFrom(p, source)

\* the call has returned or thrown and the caller goes on; nothing goes on
\* after an abort
Return ==
    /\ ~Idle
    /\ last.out # UNDEFINED
    /\ res = NULL
    /\ last' = NoCall
    /\ UNCHANGED <<heap, res>>

Next == GetElementStep \/ SetElementStep \/ FillFromStep \/ Return

Spec == Init /\ [][Next]_vars

(* -------------- SpecOps: two operands and the operations ------------ *)

\* what the build makes of the mismatched delete
DeleteOutcomes == {OK, UNDEFINED}

\* a matrix a caller has constructed and filled
Filled(shape, source) == FillFrom(RowMatrix(shape[1], shape[2], source), source).obj

\* the operand matrices a caller builds
Operands ==
    {Filled(s, Ramp(s[1] * s[2], start, step)) :
        s \in Shapes, start \in Val, step \in Val}

\* the pointers a caller passes: the null pointer or an operand
Pointers(h) == {NULL} \cup (Live(h) \ {res})

InitOps ==
    /\ \E A \in Operands, B \in Operands :
         LET hA == [EmptyHeap EXCEPT ![Alloc(EmptyHeap)] = A]
         IN  heap = [hA EXCEPT ![Alloc(hA)] = B]
    /\ res = NULL
    /\ last = NoCall

\* the caller stores the returned pointer in res
Returned(op, a, b, c, r) ==
    /\ heap' = r.heap
    /\ res' = r.res
    /\ last' = [NoCall EXCEPT !.op = op, !.a = a, !.b = b, !.c = c,
                              !.out = r.out, !.res = r.res]

AddStep ==
    /\ Idle
    /\ res = NULL
    /\ \E a \in Pointers(heap), b \in Pointers(heap), g \in Val :
         Returned("Add", a, b, NULL, Add(heap, a, b, g))

MultiplyStep ==
    /\ Idle
    /\ res = NULL
    /\ \E a \in Pointers(heap), b \in Pointers(heap), g \in Val, del \in DeleteOutcomes :
         Returned("Multiply", a, b, NULL, Multiply(heap, a, b, g, del))

GEMMStep ==
    /\ Idle
    /\ res = NULL
    /\ \E a \in Pointers(heap), b \in Pointers(heap), c \in Pointers(heap),
          g \in Val, del \in DeleteOutcomes :
         Returned("GEMM", a, b, c, GEMM(heap, a, b, c, g, del))

\* the caller writes into the result it has just received
ModifyResult ==
    /\ last.op \in {"Add", "Multiply", "GEMM"}
    /\ last.out = OK
    /\ res # NULL
    /\ \E i \in 0 .. heap[res]._rows - 1, j \in 0 .. heap[res]._cols - 1, val \in Val :
         CallSetElement(res, i, j, val)

\* the caller's unique_ptr releases the result
DestroyStep ==
    /\ ~Idle
    /\ last.out # UNDEFINED
    /\ res # NULL
    /\ \E del \in DeleteOutcomes :
         LET r == Destroy(heap, res, del)
         IN  /\ heap' = r.heap
             /\ res' = NULL
             /\ last' = [NoCall EXCEPT !.op = "Destroy", !.a = res, !.out = r.out]

NextOps ==
    AddStep \/ MultiplyStep \/ GEMMStep \/ ModifyResult \/ DestroyStep \/ Return

SpecOps == InitOps /\ [][NextOps]_vars

(* ------------------------------ claims ------------------------------ *)

\* (i, j) lies within the shape of m
ValidIndex(m, i, j) == 0 <= i /\ i < m._rows /\ 0 <= j /\ j < m._cols

\* the valid positions of m
Positions(m) == (0 .. m._rows - 1) \X (0 .. m._cols - 1)

\* what GetElement(i, j) answers on the object at p
At(p, i, j) == GetElement(heap[p], i, j)

\* a step that makes a call of op
Calls(op) == Idle /\ last'.op = op

\* sum over k in [0, n) of A[i][k] * B[k][j], starting from 0
RECURSIVE DotProduct(_, _, _, _, _)
DotProduct(a, b, i, j, n) ==
    IF n = 0 THEN 0
    ELSE DotProduct(a, b, i, j, n - 1) + At(a, i, n - 1).ret * At(b, n - 1, j).ret

\* the shapes of the operands of the latest call allow their product
Multipliable ==
    /\ last.a # NULL
    /\ last.b # NULL
    /\ heap[last.a]._cols = heap[last.b]._rows

\* C1: Multiply(A, B) on present A, B with A.cols == B.rows returns a
\* present matrix of shape A.rows x B.cols whose (i, j) element is the sum
\* over k of A[i][k] * B[k][j].
C1_MultiplyReturnsProduct ==
    (last.op = "Multiply" /\ last.out = OK /\ Multipliable) =>
        /\ last.res # NULL
        /\ heap[last.res]._rows = heap[last.a]._rows
        /\ heap[last.res]._cols = heap[last.b]._cols
        /\ \A x \in Positions(heap[last.res]) :
              At(last.res, x[1], x[2]) =
                 [out |-> OK,
                  ret |-> DotProduct(last.a, last.b, x[1], x[2], heap[last.a]._cols)]

\* C2: GEMM(A, B, C) on present A, B, C with A.cols == B.rows, A.rows ==
\* C.rows and B.cols == C.cols returns a present matrix of shape A.rows x
\* B.cols whose (i, j) element is (sum over k of A[i][k] * B[k][j]) + C[i][j].
C2_GEMMReturnsProductPlusC ==
    (/\ last.op = "GEMM"
     /\ last.out = OK
     /\ Multipliable
     /\ last.c # NULL
     /\ heap[last.a]._rows = heap[last.c]._rows
     /\ heap[last.b]._cols = heap[last.c]._cols) =>
        /\ last.res # NULL
        /\ heap[last.res]._rows = heap[last.a]._rows
        /\ heap[last.res]._cols = heap[last.b]._cols
        /\ \A x \in Positions(heap[last.res]) :
              At(last.res, x[1], x[2]) =
                 [out |-> OK,
                  ret |-> DotProduct(last.a, last.b, x[1], x[2], heap[last.a]._cols)
                             + At(last.c, x[1], x[2]).ret]

\* C3: SetElement(i, j, v) with (i, j) inside the shape succeeds, and a
\* GetElement(i, j) that follows it returns v.
C3_ReadAfterWrite ==
    (last.op = "SetElement" /\ ValidIndex(heap[last.a], last.i, last.j)) =>
        /\ last.out = OK
        /\ At(last.a, last.i, last.j) = [out |-> OK, ret |-> last.val]

\* a write of the largest value into the last cell of a matrix with
\* several rows and columns has succeeded
C3_Witness ==
    /\ last.op = "SetElement"
    /\ last.out = OK
    /\ last.i = heap[last.a]._rows - 1
    /\ last.j = heap[last.a]._cols - 1
    /\ last.i > 0
    /\ last.j > 0
    /\ last.val = MaxVal

\* C4: GetElement(i, j) and SetElement(i, j, v) with (i, j) outside the
\* shape raise the out-of-range error and leave every cell and the shape
\* of the matrix as they were.
C4_RejectedAccess ==
    [][((Calls("GetElement") \/ Calls("SetElement"))
            /\ ~ValidIndex(heap[last'.a], last'.i, last'.j)) =>
          (last'.out = OUT_OF_RANGE /\ heap' = heap)]_vars

\* a read at the row boundary i == rows, with j valid, has been rejected
C4_Witness ==
    /\ last.op = "GetElement"
    /\ last.out = OUT_OF_RANGE
    /\ last.i = heap[last.a]._rows
    /\ last.j = 0

\* C5: FillFrom(seq) is accepted exactly when length(seq) == rows * cols;
\* accepted, it leaves GetElement(i, j) == seq[i * cols + j] at every valid
\* (i, j); rejected, it raises the out-of-range error and changes no cell.
C5_FillFrom ==
    [][Calls("FillFrom") =>
          LET before == heap[last'.a]
              after == heap'[last'.a]
              seq == last'.source
          IN  /\ last'.out \in {OK, OUT_OF_RANGE}
              /\ last'.out = OK <=> Len(seq) = before._rows * before._cols
              /\ last'.out = OK =>
                    /\ after._rows = before._rows
                    /\ after._cols = before._cols
                    /\ \A x \in Positions(before) :
                          GetElement(after, x[1], x[2]) =
                             [out |-> OK, ret |-> seq[x[1] * before._cols + x[2] + 1]]
              /\ last'.out # OK => heap' = heap]_vars

\* a source whose elements differ has been copied into a matrix with
\* several rows and columns
C5_Witness ==
    /\ last.op = "FillFrom"
    /\ last.out = OK
    /\ heap[last.a]._rows > 1
    /\ heap[last.a]._cols > 1
    /\ last.source[1] # last.source[2]

\* the two operands of the latest call are present and of one shape
SameShape ==
    /\ last.a # NULL
    /\ last.b # NULL
    /\ heap[last.a]._rows = heap[last.b]._rows
    /\ heap[last.a]._cols = heap[last.b]._cols

\* the heap before the result of the latest call was made
Before == [heap EXCEPT ![last.res] = FREE]

\* C6: Add(A, B) raises no error; its result is present exactly when A and
\* B are present and of one shape; a present result has the shape of A and
\* holds A[i][j] + B[i][j] at every valid (i, j), as does Add(B, A).
C6_Add ==
    last.op = "Add" =>
        /\ last.out = OK
        /\ last.res # NULL <=> SameShape
        /\ last.res # NULL =>
              /\ heap[last.res]._rows = heap[last.a]._rows
              /\ heap[last.res]._cols = heap[last.a]._cols
              /\ \A x \in Positions(heap[last.a]) :
                    At(last.res, x[1], x[2]) =
                       [out |-> OK,
                        ret |-> At(last.a, x[1], x[2]).ret + At(last.b, x[1], x[2]).ret]
              /\ \A g \in Val :
                    LET swapped == Add(Before, last.b, last.a, g)
                    IN  /\ swapped.res # NULL
                        /\ swapped.heap[swapped.res] = heap[last.res]

\* two different operands with several rows or columns have been added
C6_Witness ==
    /\ last.op = "Add"
    /\ last.res # NULL
    /\ last.a # last.b
    /\ heap[last.a] # heap[last.b]
    /\ Len(heap[last.res]._linear) > 1

\* the product of the operands of the latest call is absent by the code's
\* own tests
ProductAbsent ==
    \/ last.a = NULL
    \/ last.b = NULL
    \/ heap[last.a]._cols # heap[last.b]._rows

C8_MultiplyAbsent ==
    (last.op = "Multiply" /\ ProductAbsent) => (last.out = OK /\ last.res = NULL)

\* Multiply has been called with present operands whose shapes forbid the
\* product, A having more columns than B has rows
C8_Witness ==
    /\ last.op = "Multiply"
    /\ last.a # NULL
    /\ last.b # NULL
    /\ heap[last.a]._cols > heap[last.b]._rows
    /\ last.res = NULL

\* C9: a call of Add, Multiply or GEMM leaves every matrix that existed
\* before it as it was, also when one matrix is passed twice; a present
\* result is a new matrix, and a write into it changes no other matrix.
C9_OperandsUntouched ==
    [][/\ (Calls("Add") \/ Calls("Multiply") \/ Calls("GEMM")) =>
             /\ \A p \in Live(heap) : heap'[p] = heap[p]
             /\ last'.res # NULL => last'.res \notin Live(heap)
       /\ last'.op = "SetElement" =>
             \A p \in Addr \ {last'.a} : heap'[p] = heap[p]]_vars

\* one matrix has been passed as both operands of Add, and the present
\* result differs from it
C9_Witness ==
    /\ last.op = "Add"
    /\ last.a = last.b
    /\ last.res # NULL
    /\ heap[last.res]._linear # heap[last.a]._linear

\* the layout of the object m
Layout(m) ==
    /\ GetRowCount(m) > 0
    /\ GetColumnCount(m) > 0
    /\ Len(m._linear) = m._rows * m._cols
    /\ Len(m._data) = m._rows
    /\ \A r \in 0 .. m._rows - 1 : m._data[r + 1] = r * m._cols
    /\ \A x \in Positions(m) : Slot(m, x[1], x[2]) = x[1] * m._cols + x[2]
    /\ \A x \in Positions(m), y \in Positions(m) :
          x # y => Slot(m, x[1], x[2]) # Slot(m, y[1], y[2])

\* C10: in every state reached by GetElement, SetElement and FillFrom
\* calls, GetRowCount() and GetColumnCount() return the constructed rows
\* and cols, both positive; the buffer holds rows * cols elements; row
\* index entry r addresses offset r * cols, so that cell (i, j) is at
\* offset i * cols + j and distinct cells never share a slot.
C10_Layout ==
    /\ [](last.op = "RowMatrix" =>
             /\ GetRowCount(heap[last.a]) = last.i
             /\ GetColumnCount(heap[last.a]) = last.j)
    /\ [](\A p \in Live(heap) : Layout(heap[p]))
    /\ [][\A p \in Live(heap) :
             /\ p \in Live(heap')
             /\ GetRowCount(heap'[p]) = GetRowCount(heap[p])
             /\ GetColumnCount(heap'[p]) = GetColumnCount(heap[p])]_vars

\* a matrix with several rows and columns has been filled
C10_Witness ==
    /\ last.op = "FillFrom"
    /\ last.out = OK
    /\ heap[last.a]._rows > 1
    /\ heap[last.a]._cols > 1
    /\ last.source[1] = MaxVal

=============================================================================
